---- MODULE Spec2Model ----
(***************************************************************************)
(* gw-project: a multi-currency wallet (gw-currency-wallet) backed by a    *)
(* PostgreSQL ledger, exchanging at rates served by gw-exchanger.          *)
(*                                                                         *)
(* Money.  Request amounts are float64 values; they are modelled as whole  *)
(* numbers of mills (1/1000 of a currency unit).  The wallets table keeps  *)
(* DECIMAL(15,2) columns; a stored balance is modelled as a whole number   *)
(* of cents, and every UPDATE rounds its exact result to cents the way     *)
(* PostgreSQL numeric does (half away from zero).  A rate is the exact     *)
(* rational <<num, den>>.                                                  *)
(*                                                                         *)
(* Database.  Statements run under READ COMMITTED: a SELECT sees the last  *)
(* committed row, an UPDATE takes the row lock until its transaction ends  *)
(* and waits while another transaction holds it.  A statement outside a    *)
(* transaction commits by itself.  A Commit that returns an error has not  *)
(* committed.                                                              *)
(*                                                                         *)
(* Rates.  Quotes are prices in RUB of one unit of a currency.  The feed   *)
(* quotes used are whole numbers, which pass the float32 field of the gRPC *)
(* reply unchanged.                                                        *)
(*                                                                         *)
(* Refresh.  gw-exchanger refreshes its quotes from one goroutine, one     *)
(* UpdateRatesFromCB at a time; the time written to updated_at is the      *)
(* number of the refresh.  Readers of exchange_rates see committed rows    *)
(* only.                                                                   *)
(***************************************************************************)
EXTENDS Integers, FiniteSets, Sequences, TLC

VARIABLES
    rows,       \* users that have a row in table wallets
    wallets,    \* committed rows of table wallets: user -> currency -> cents
    lock,       \* row lock owner: user -> process, 0 when free
    pending,    \* uncommitted row version written by the lock owner
    call,       \* per request goroutine: the call in progress and its locals
    cache,      \* Redis key exchange:rates
    store,      \* quotes gw-exchanger serves (table exchange_rates)
    ncalls,     \* calls issued so far
    net,        \* history: exact sum of the committed deltas, in NetScale-ths of a mill
    updater,    \* gw-exchanger's refresh of the quotes: position and transaction
    updated_at  \* column updated_at of table exchange_rates: currency -> time

vars == <<rows, wallets, lock, pending, call, cache, store, ncalls, net,
          updater, updated_at>>

----------------------------------------------------------------------------
(* Bounds of the model *)

MaxCalls == 2                          \* calls issued in one behaviour
MaxSeqCalls == 1                       \* of them, calls with arbitrary arguments
MaxRateCalls == 1                      \* of them, rate requests
MaxRefreshes == 2                      \* refreshes of the quotes started

Users == {1, 2}                        \* registered users (rows of table users)
Procs == {1, 2}                        \* request goroutines running at once

(* Inputs of concurrent calls: well-formed requests for 1.00 *)
Amounts == {1000}

(* Inputs of sequential calls: also a user id, a currency and an amount     *)
(* that validation rejects, and an amount below one cent                   *)
UserInputs == {0} \cup Users
CurrencyInputs == {"USD", "RUB", "EUR", "GBP"}
AmountInputs == {0, 5, 1000}           \* mills: 0, 0.005 and 1.00

(* Program constants *)
Currencies == {"USD", "RUB", "EUR"}
CentMills == 10                        \* mills in one cent, the unit of DECIMAL(15,2)

ZeroRow == [c \in Currencies |-> 0]

----------------------------------------------------------------------------
(* Arithmetic *)

\* numeric rounding of n/d (d > 0) to an integer, ties away from zero
RoundDiv(n, d) ==
    IF n >= 0 THEN (2 * n + d) \div (2 * d)
    ELSE -((2 * (-n) + d) \div (2 * d))

\* SET col = col + $1 on a DECIMAL(15,2) column: the column holds cents, the
\* parameter is num/den mills, the sum is rounded to cents on assignment
AddRounded(cents, num, den) ==
    RoundDiv(cents * CentMills * den + num, CentMills * den)

\* rationals <<num, den>>, den > 0
Inv(q) == <<q[2], q[1]>>
Mul(a, b) == <<a[1] * b[1], a[2] * b[2]>>
\* a and b are the same number
Eq(a, b) == a[1] * b[2] = b[1] * a[2]

Gt(a, b) == a[1] * b[2] > b[1] * a[2]
One == <<1, 1>>
Zero == <<0, 1>>

----------------------------------------------------------------------------
(* WalletService helpers and ExchangeService rate resolution *)

isValidCurrency(currency) == currency \in {"USD", "RUB", "EUR"}

\* a Go map lookup: the zero value for an absent key
Quote(rates, currency) ==
    IF currency \in DOMAIN rates THEN rates[currency] ELSE Zero

filterRates(rates) ==
    [c \in {"USD", "EUR", "RUB"} \cap DOMAIN rates |-> rates[c]]

\* a resolver whose rate between USD and EUR is the ratio of the quotes the
\* other way round
RateOfInverted(rates, from, to) ==
    LET usd == Quote(rates, "USD")
        eur == Quote(rates, "EUR")
        fail == [ok |-> FALSE, rate |-> Zero]
        ok(r) == [ok |-> TRUE, rate |-> r]
    IN  IF usd[1] = 0 \/ eur[1] = 0 THEN fail
        ELSE CASE from = "RUB" /\ to = "USD" -> ok(Inv(usd))
               [] from = "USD" /\ to = "RUB" -> ok(usd)
               [] from = "RUB" /\ to = "EUR" -> ok(Inv(eur))
               [] from = "EUR" /\ to = "RUB" -> ok(eur)
               [] from = "USD" /\ to = "EUR" -> ok(Mul(Inv(usd), eur))
               [] from = "EUR" /\ to = "USD" -> ok(Mul(Inv(eur), usd))
               [] OTHER -> fail

\* GetRate after GetRates has returned rates (from # to)
RateOf(rates, from, to) ==
    LET usd == Quote(rates, "USD")
        eur == Quote(rates, "EUR")
        fail == [ok |-> FALSE, rate |-> Zero]
        ok(r) == [ok |-> TRUE, rate |-> r]
    IN  IF usd[1] = 0 \/ eur[1] = 0 THEN fail
        ELSE CASE from = "RUB" /\ to = "USD" -> ok(Inv(usd))
               [] from = "USD" /\ to = "RUB" -> ok(usd)
               [] from = "RUB" /\ to = "EUR" -> ok(Inv(eur))
               [] from = "EUR" /\ to = "RUB" -> ok(eur)
               [] from = "USD" /\ to = "EUR" -> ok(Mul(Inv(eur), usd))
               [] from = "EUR" /\ to = "USD" -> ok(Mul(Inv(usd), eur))
               [] OTHER -> fail

\* GetRate on the quotes GetRates has returned
WalletRateOf(rates, from, to) ==
    IF from = to THEN [ok |-> TRUE, rate |-> One] ELSE RateOf(rates, from, to)

\* the plausibility check made before the ledger is called
Implausible(from, to, rate) ==
    \/ from = "RUB" /\ to = "USD" /\ Gt(rate, <<5, 100>>)
    \/ from = "USD" /\ to = "RUB" /\ Gt(<<10, 1>>, rate)

\* the maxRates table, looked up by "from/to"
maxRates ==
    [k \in {<<"RUB", "USD">>, <<"USD", "RUB">>, <<"EUR", "USD">>, <<"USD", "EUR">>} |->
        CASE k = <<"RUB", "USD">> -> <<5, 100>>
          [] k = <<"USD", "RUB">> -> <<100, 1>>
          [] OTHER -> <<2, 1>>]

TooHigh(from, to, rate) ==
    <<from, to>> \in DOMAIN maxRates /\ Gt(rate, maxRates[<<from, to>>])

----------------------------------------------------------------------------
(* Ledger statements *)

\* an UPDATE that adds the amount to every currency column of the row
updateEveryBalance(row, currency, num, den) ==
    [k \in DOMAIN row |-> AddRounded(row[k], num, den)]

\* UPDATE wallets SET <currency> = <currency> + $1 ... RETURNING usd, rub, eur
updateBalanceTx(row, currency, num, den) ==
    [row EXCEPT ![currency] = AddRounded(@, num, den)]

----------------------------------------------------------------------------
(* Quote sets gw-exchanger can serve: what the migration seeds, and what   *)
(* a refresh from the central bank's feed stores (prices in RUB).          *)

SeededQuotes == [c \in {"EUR", "RUB"} |-> IF c = "EUR" THEN <<85, 100>> ELSE <<75, 1>>]

FeedQuotes(usd, eur) ==
    [c \in {"USD", "EUR", "RUB", "GBP"} |->
        CASE c = "USD" -> <<usd, 1>>
          [] c = "EUR" -> <<eur, 1>>
          [] c = "GBP" -> <<110, 1>>
          [] OTHER -> One]

FeedSets == {FeedQuotes(80, 100), FeedQuotes(5, 100)}
QuoteSets == {SeededQuotes} \cup FeedSets

\* a feed with a quote of 0 for EUR, and the tables a rate request can find
ZeroQuotes == FeedQuotes(80, 0)
StoreSets == QuoteSets \cup {ZeroQuotes}

\* a later feed that no longer quotes GBP
LaterFeed == [c \in {"USD", "EUR", "RUB"} |-> FeedQuotes(5, 100)[c]]
\* what a refresh fetches
Feeds == {FeedQuotes(80, 100), LaterFeed}

\* every rate of QuoteSets has a denominator that divides NetScale
NetScale == 4 * 100

NoRates == [c \in {} |-> Zero]
NoCacheEntry == [present |-> FALSE, rates |-> NoRates]

\* the refresh goroutine between two refreshes; n counts the refreshes
\* started, which is the time a refresh writes to updated_at; up tells
\* whether the feed answers and the database takes the writes, so whether
\* no step of a refresh returns an error; logged counts the errors written
\* to the log
IdleUpdater ==
    [pc |-> "idle", res |-> "none", rates |-> NoRates, todo |-> {},
     tx |-> NoRates, txat |-> NoRates, n |-> 0, up |-> TRUE,
     logged |-> 0]

----------------------------------------------------------------------------
(* Calls.  A call record holds the arguments (op, user, peer, from, to,    *)
(* amount), the program position pc, the resolved rate and the result res. *)
(* History fields: touched - a repository method has been called; short -  *)
(* the UPDATE of a Withdraw found less than the amount; bal0 - the         *)
(* committed balance of the source currency when the call was issued;      *)
(* fin0 - the number of calls that had returned when it was issued (two    *)
(* calls with equal fin0 overlap); snap - the quotes that were there for   *)
(* a rate request: the cache entry when the wallet's GetRate was called,   *)
(* the table when the exchanger's GetRate made its first query.            *)
(* Among the results, no_rows is the error of an UPDATE ... RETURNING that *)
(* finds no row for the user (sql.ErrNoRows from Scan), duplicate_key the  *)
(* error of an INSERT for a user who has a row, and db_error any other     *)
(* error of the database.                                                  *)

IdleCall ==
    [op |-> "none", pc |-> "idle", user |-> 0, peer |-> 0, from |-> "none",
     to |-> "none", amount |-> 0, rate |-> Zero, res |-> "none",
     touched |-> FALSE, short |-> FALSE, bal0 |-> 0, fin0 |-> 0,
     snap |-> NoRates]

InFlight == {p \in Procs : call[p].pc \notin {"idle", "done"}}
Finished == ncalls - Cardinality(InFlight)

\* a call that has returned with result r
Returned(c, r) == [c EXCEPT !.pc = "done", !.res = r]

Issue(p, c) ==
    /\ call[p].pc \in {"idle", "done"}
    /\ ncalls < MaxCalls
    /\ call' = [call EXCEPT ![p] = [c EXCEPT !.fin0 = Finished]]
    /\ ncalls' = ncalls + 1

\* Ledgers the service can be in when the calls of a behaviour start: no
\* wallet row yet; a zero row for every user (each has asked for the
\* balance); user 1 funded with 1.00 in every currency (three deposits).
Funded == [c \in Currencies |-> 100]

InitLedgers ==
    {[rows |-> {}, wallets |-> [u \in Users |-> ZeroRow]],
     [rows |-> Users, wallets |-> [u \in Users |-> ZeroRow]],
     [rows |-> Users, wallets |-> [u \in Users |-> IF u = 1 THEN Funded ELSE ZeroRow]]}

Init ==
    /\ \E l \in InitLedgers :
          /\ rows = l.rows
          /\ wallets = l.wallets
          /\ net = [u \in Users |-> [c \in Currencies |->
                        l.wallets[u][c] * CentMills * NetScale]]
    /\ lock = [u \in Users |-> 0]
    /\ pending = [u \in Users |-> ZeroRow]
    /\ call = [p \in Procs |-> IdleCall]
    /\ cache = NoCacheEntry
    /\ store \in QuoteSets
    /\ ncalls = 0
    /\ updater = IdleUpdater
    /\ updated_at = [c \in DOMAIN store |-> 0]

\* the history variable: the exact delta num/den mills of a committed call
NetAdd(n, u, currency, num, den) ==
    [n EXCEPT ![u][currency] =
        @ + (num \div den) * NetScale + ((num % den) * NetScale) \div den]

----------------------------------------------------------------------------
(* ExchangeService.GetRate *)

\* GetRate has returned rate to its caller: a client of the rate service, or
\* WalletService.Exchange, which makes its first plausibility check and
\* calls the ledger
Got(c, rate) ==
    IF c.op = "GetRate" THEN Returned([c EXCEPT !.rate = rate], "ok")
    ELSE IF Implausible(c.from, c.to, rate) THEN Returned(c, "implausible")
    ELSE [c EXCEPT !.pc = "debit", !.rate = rate]

\* a GetRate that asks GetRates for every pair, equal currencies included
EnterGetRateUnchecked(c) ==
    [c EXCEPT !.pc = "rates"]

\* GetRate up to its call of GetRates
EnterGetRate(c) ==
    IF c.from = c.to THEN Got(c, One) ELSE [c EXCEPT !.pc = "rates"]

\* GetRate once GetRates has returned rates
Resolved(c, rates) ==
    LET r == RateOf(rates, c.from, c.to)
    IN  IF ~r.ok THEN Returned(c, "rate_error") ELSE Got(c, r.rate)

----------------------------------------------------------------------------
(* WalletService: the entry of each call, up to its first ledger or rate   *)
(* access.  Validation reads only the arguments.                           *)

\* history: the committed balance a call finds when it is issued
Committed(userID, currency) ==
    IF userID \in rows /\ isValidCurrency(currency) THEN wallets[userID][currency] ELSE 0

GetBalance(p, userID) ==
    LET c == [IdleCall EXCEPT !.op = "GetBalance", !.user = userID]
    IN  /\ Issue(p, IF userID <= 0 THEN Returned(c, "invalid")
                    ELSE [c EXCEPT !.pc = "select"])
        /\ UNCHANGED <<rows, wallets, lock, pending, cache, store, net, updater, updated_at>>

Deposit(p, userID, currency, amount) ==
    LET c == [IdleCall EXCEPT !.op = "Deposit", !.user = userID,
                              !.from = currency, !.amount = amount,
                              !.bal0 = Committed(userID, currency)]
    IN  /\ Issue(p, IF userID <= 0 \/ ~isValidCurrency(currency) \/ amount <= 0
                    THEN Returned(c, "invalid")
                    ELSE [c EXCEPT !.pc = "update"])
        /\ UNCHANGED <<rows, wallets, lock, pending, cache, store, net, updater, updated_at>>

\* a Withdraw that does not validate the amount
WithdrawUnvalidated(p, userID, currency, amount) ==
    LET c == [IdleCall EXCEPT !.op = "Withdraw", !.user = userID,
                              !.from = currency, !.amount = amount,
                              !.bal0 = Committed(userID, currency)]
    IN  /\ Issue(p, IF userID <= 0 \/ ~isValidCurrency(currency)
                    THEN Returned(c, "invalid")
                    ELSE [c EXCEPT !.pc = "select"])
        /\ UNCHANGED <<rows, wallets, lock, pending, cache, store, net, updater, updated_at>>

Withdraw(p, userID, currency, amount) ==
    LET c == [IdleCall EXCEPT !.op = "Withdraw", !.user = userID,
                              !.from = currency, !.amount = amount,
                              !.bal0 = Committed(userID, currency)]
    IN  /\ Issue(p, IF userID <= 0 \/ ~isValidCurrency(currency) \/ amount <= 0
                    THEN Returned(c, "invalid")
                    ELSE [c EXCEPT !.pc = "select"])
        /\ UNCHANGED <<rows, wallets, lock, pending, cache, store, net, updater, updated_at>>

Exchange(p, userID, fromCurrency, toCurrency, amount) ==
    LET c == [IdleCall EXCEPT !.op = "Exchange", !.user = userID,
                              !.from = fromCurrency, !.to = toCurrency,
                              !.amount = amount,
                              !.bal0 = Committed(userID, fromCurrency)]
    IN  /\ Issue(p, IF \/ userID <= 0
                       \/ ~isValidCurrency(fromCurrency)
                       \/ ~isValidCurrency(toCurrency)
                       \/ amount <= 0
                    THEN Returned(c, "invalid")
                    ELSE EnterGetRate(c))
        /\ UNCHANGED <<rows, wallets, lock, pending, cache, store, net, updater, updated_at>>

\* walletRepository.Transfer is called with a transfer already validated
Transfer(p, fromUserID, toUserID, currency, amount) ==
    LET c == [IdleCall EXCEPT !.op = "Transfer", !.user = fromUserID,
                              !.peer = toUserID, !.from = currency,
                              !.to = currency, !.amount = amount,
                              !.rate = One, !.pc = "debit",
                              !.bal0 = Committed(fromUserID, currency)]
    IN  /\ Issue(p, c)
        /\ UNCHANGED <<rows, wallets, lock, pending, cache, store, net, updater, updated_at>>

----------------------------------------------------------------------------
(* ExchangeService.GetRates *)

\* a client asks the rate service for the rate of a pair
GetRate(p, from, to) ==
    LET c == [IdleCall EXCEPT !.op = "GetRate", !.from = from, !.to = to,
                              !.snap = IF cache.present THEN cache.rates ELSE NoRates]
    IN  /\ Issue(p, EnterGetRate(c))
        /\ UNCHANGED <<rows, wallets, lock, pending, cache, store, net, updater, updated_at>>


\* a GetRates without the cache: every call asks the rate service and
\* returns its answer
GetRatesUncached(p) ==
    /\ call[p].pc = "rates"
    /\ call' = [call EXCEPT ![p] = Resolved(@, filterRates(store))]
    /\ UNCHANGED <<rows, wallets, lock, pending, cache, store, ncalls, net, updater, updated_at>>

\* GetRates: the Redis GET; a miss (or an unreadable entry) goes to gRPC
GetRatesCache(p) ==
    /\ call[p].pc = "rates"
    /\ \/ /\ cache.present
          /\ call' = [call EXCEPT ![p] = Resolved(@, filterRates(cache.rates))]
       \/ call' = [call EXCEPT ![p].pc = "grpc"]
    /\ UNCHANGED <<rows, wallets, lock, pending, cache, store, ncalls, net, updater, updated_at>>

\* GetRates: the gRPC call GetExchangeRates and the Redis SET of its result
GetRatesRemote(p) ==
    /\ call[p].pc = "grpc"
    /\ \/ /\ call' = [call EXCEPT ![p] = Returned(@, "rate_error")]
          /\ UNCHANGED cache
       \/ /\ call' = [call EXCEPT ![p] = Resolved(@, filterRates(store))]
          /\ cache' \in {cache, [present |-> TRUE, rates |-> store]}
    /\ UNCHANGED <<rows, wallets, lock, pending, store, ncalls, net, updater, updated_at>>

\* the Redis entry's time to live (cacheDuration) runs out
CacheExpire ==
    /\ cache.present
    /\ cache' = NoCacheEntry
    /\ UNCHANGED <<rows, wallets, lock, pending, call, store, ncalls, net, updater, updated_at>>

----------------------------------------------------------------------------
(* walletRepository *)

\* the funds check WalletService.Withdraw makes on the balance it has read
Checked(c, balance) ==
    IF c.op # "Withdraw" THEN Returned(c, "ok")
    ELSE IF balance[c.from] * CentMills < c.amount THEN Returned(c, "insufficient")
    ELSE [c EXCEPT !.pc = "update"]

\* GetBalance: SELECT usd, rub, eur FROM wallets WHERE user_id = $1
RepoGetBalance(p) ==
    LET c == [call[p] EXCEPT !.touched = TRUE]
    IN  /\ call[p].pc = "select"
        /\ call' = [call EXCEPT ![p] = IF c.user \in rows
                                       THEN Checked(c, wallets[c.user])
                                       ELSE [c EXCEPT !.pc = "insert"]]
        /\ UNCHANGED <<rows, wallets, lock, pending, cache, store, ncalls, net, updater, updated_at>>

\* CreateWallet: INSERT INTO wallets (user_id) VALUES ($1); user_id is the
\* primary key, so a second insert for the same user fails
RepoCreateWallet(p) ==
    LET c == call[p]
    IN  /\ c.pc = "insert"
        /\ IF c.user \in rows
           THEN /\ call' = [call EXCEPT ![p] = Returned(c, "duplicate_key")]
                /\ UNCHANGED rows
           ELSE /\ rows' = rows \cup {c.user}
                /\ call' = [call EXCEPT ![p] = Checked(c, ZeroRow)]
        /\ UNCHANGED <<wallets, lock, pending, cache, store, ncalls, net, updater, updated_at>>

\* the signed amount Deposit and Withdraw hand to UpdateBalance
Delta(c) == IF c.op = "Withdraw" THEN -c.amount ELSE c.amount

\* UpdateBalance: one UPDATE outside a transaction
RepoUpdateBalance(p) ==
    LET c == [call[p] EXCEPT !.touched = TRUE]
        u == c.user
    IN  /\ call[p].pc = "update"
        /\ IF u \notin rows
           THEN /\ call' = [call EXCEPT ![p] = Returned(c, "no_rows")]
                /\ UNCHANGED <<wallets, net>>
           ELSE /\ lock[u] = 0
                /\ wallets' = [wallets EXCEPT ![u] = updateBalanceTx(@, c.from, Delta(c), 1)]
                /\ net' = NetAdd(net, u, c.from, Delta(c), 1)
                /\ call' = [call EXCEPT ![p] =
                       Returned([c EXCEPT !.short = wallets[u][c.from] * CentMills < c.amount
                                                    /\ c.op = "Withdraw"], "ok")]
        /\ UNCHANGED <<rows, lock, pending, cache, store, ncalls, updater, updated_at>>

\* the row version a statement of p's transaction starts from
Base(p, u) == IF lock[u] = p THEN pending[u] ELSE wallets[u]

\* updateBalanceTx inside p's transaction: takes the row lock and writes an
\* uncommitted version of the row
TxUpdate(p, u, currency, num, den) ==
    /\ u \in rows
    /\ lock[u] \in {0, p}
    /\ pending' = [pending EXCEPT ![u] = updateBalanceTx(Base(p, u), currency, num, den)]
    /\ lock' = [lock EXCEPT ![u] = p]

\* a rollback that keeps what the transaction has written so far, as if
\* each statement had committed by itself
RollbackKeepsWrites(p) ==
    /\ lock' = [u \in Users |-> IF lock[u] = p THEN 0 ELSE lock[u]]
    /\ pending' = [u \in Users |-> IF lock[u] = p THEN ZeroRow ELSE pending[u]]
    /\ wallets' = [u \in Users |-> IF lock[u] = p THEN pending[u] ELSE wallets[u]]
    /\ UNCHANGED net

\* tx.Rollback (the deferred one, after an error): drops p's versions
Rollback(p) ==
    /\ lock' = [u \in Users |-> IF lock[u] = p THEN 0 ELSE lock[u]]
    /\ pending' = [u \in Users |-> IF lock[u] = p THEN ZeroRow ELSE pending[u]]
    /\ UNCHANGED <<wallets, net>>

\* tx.Commit: p's versions become the committed rows
Commit(p) ==
    /\ wallets' = [u \in Users |-> IF lock[u] = p THEN pending[u] ELSE wallets[u]]
    /\ lock' = [u \in Users |-> IF lock[u] = p THEN 0 ELSE lock[u]]
    /\ pending' = [u \in Users |-> IF lock[u] = p THEN ZeroRow ELSE pending[u]]

\* Exchange: BeginTx and the debit of fromCurrency
RepoExchangeDebit(p) ==
    LET c == [call[p] EXCEPT !.touched = TRUE]
        u == c.user
    IN  /\ call[p].pc = "debit" /\ c.op = "Exchange"
        /\ IF u \notin rows
           THEN /\ call' = [call EXCEPT ![p] = Returned(c, "no_rows")]
                /\ UNCHANGED <<lock, pending>>
           ELSE /\ TxUpdate(p, u, c.from, -c.amount, 1)
                /\ call' = [call EXCEPT ![p] =
                       [c EXCEPT !.pc = "credit"]]
        /\ UNCHANGED <<rows, wallets, cache, store, ncalls, net, updater, updated_at>>

\* Exchange: the credit of amount * rate in toCurrency
RepoExchangeCredit(p) ==
    LET c == call[p]
    IN  /\ c.pc = "credit" /\ c.op = "Exchange"
        /\ TxUpdate(p, c.user, c.to, c.amount * c.rate[1], c.rate[2])
        /\ call' = [call EXCEPT ![p].pc = "commit"]
        /\ UNCHANGED <<rows, wallets, cache, store, ncalls, net, updater, updated_at>>

\* Exchange: tx.Commit; then WalletService.Exchange looks the rate up in
\* maxRates and returns
RepoExchangeCommit(p) ==
    LET c == call[p]
    IN  /\ c.pc = "commit" /\ c.op = "Exchange"
        /\ Commit(p)
        /\ net' = NetAdd(NetAdd(net, c.user, c.from, -c.amount, 1),
                         c.user, c.to, c.amount * c.rate[1], c.rate[2])
        /\ call' = [call EXCEPT ![p] =
               Returned(c, IF TooHigh(c.from, c.to, c.rate) THEN "too_high" ELSE "ok")]
        /\ UNCHANGED <<rows, cache, store, ncalls, updater, updated_at>>

\* Transfer: BeginTx and the debit of the sender
RepoTransferDebit(p) ==
    LET c == [call[p] EXCEPT !.touched = TRUE]
        u == c.user
    IN  /\ call[p].pc = "debit" /\ c.op = "Transfer"
        /\ IF u \notin rows
           THEN /\ call' = [call EXCEPT ![p] = Returned(c, "no_rows")]
                /\ UNCHANGED <<lock, pending>>
           ELSE /\ TxUpdate(p, u, c.from, -c.amount, 1)
                /\ call' = [call EXCEPT ![p] = [c EXCEPT !.pc = "credit"]]
        /\ UNCHANGED <<rows, wallets, cache, store, ncalls, net, updater, updated_at>>

\* Transfer: the credit of the recipient; without a row for the recipient
\* the statement returns no row and the transaction is rolled back
RepoTransferCredit(p) ==
    LET c == call[p]
        v == c.peer
    IN  /\ c.pc = "credit" /\ c.op = "Transfer"
        /\ IF v \notin rows
           THEN /\ Rollback(p)
                /\ call' = [call EXCEPT ![p] = Returned(c, "no_rows")]
           ELSE /\ TxUpdate(p, v, c.from, c.amount, 1)
                /\ call' = [call EXCEPT ![p].pc = "commit"]
                /\ UNCHANGED <<wallets, net>>
        /\ UNCHANGED <<rows, cache, store, ncalls, updater, updated_at>>

\* Transfer: tx.Commit
RepoTransferCommit(p) ==
    LET c == call[p]
    IN  /\ c.pc = "commit" /\ c.op = "Transfer"
        /\ Commit(p)
        /\ net' = NetAdd(NetAdd(net, c.user, c.from, -c.amount, 1),
                         c.peer, c.from, c.amount, 1)
        /\ call' = [call EXCEPT ![p] = Returned(c, "ok")]
        /\ UNCHANGED <<rows, cache, store, ncalls, updater, updated_at>>

\* a statement, BeginTx or Commit fails (connection lost, context cancelled
\* or timed out, deadlock detected): the call returns the error and the
\* transaction, if one is open, is rolled back
Fail(p) ==
    /\ call[p].pc \in {"select", "insert", "update", "debit", "credit", "commit"}
    /\ Rollback(p)
    /\ call' = [call EXCEPT ![p] = Returned([@ EXCEPT !.touched = TRUE], "db_error")]
    /\ UNCHANGED <<rows, cache, store, ncalls, updater, updated_at>>

----------------------------------------------------------------------------
(* gw-exchanger: PostgresStorage *)

\* a query whose result is returned as it is in both directions
QueryRateDirect(from, to) ==
    LET targetCurrency == IF from = "USD" THEN to ELSE from
    IN  IF targetCurrency \notin DOMAIN store THEN [ok |-> FALSE, rate |-> Zero]
        ELSE [ok |-> TRUE, rate |-> store[targetCurrency]]

\* GetRate when one of the currencies is USD: SELECT rate FROM exchange_rates
\* WHERE currency = targetCurrency, returned as it is or as its reciprocal
QueryRate(from, to) ==
    LET targetCurrency == IF from = "USD" THEN to ELSE from
    IN  IF targetCurrency \notin DOMAIN store THEN [ok |-> FALSE, rate |-> Zero]
        ELSE [ok |-> TRUE,
              rate |-> IF from = "USD" THEN store[targetCurrency]
                       ELSE Inv(store[targetCurrency])]

\* GetRate on a table that does not change while it runs
StorageRateOf(from, to) ==
    IF from = to THEN [ok |-> TRUE, rate |-> One]
    ELSE IF from = "USD" \/ to = "USD" THEN QueryRate(from, to)
    ELSE LET rateFromUSD == QueryRate(from, "USD")
             rateToUSD == QueryRate("USD", to)
         IN  IF rateFromUSD.ok /\ rateToUSD.ok
             THEN [ok |-> TRUE, rate |-> Mul(rateFromUSD.rate, rateToUSD.rate)]
             ELSE [ok |-> FALSE, rate |-> Zero]

\* GetRate up to its first query
StorageGetRate(p, from, to) ==
    LET c == [IdleCall EXCEPT !.op = "StorageGetRate", !.from = from, !.to = to]
    IN  /\ Issue(p, IF from = to THEN Returned([c EXCEPT !.rate = One], "ok")
                    ELSE [c EXCEPT !.pc = "query"])
        /\ UNCHANGED <<rows, wallets, lock, pending, cache, store, net, updater, updated_at>>

\* the query of the USD case, or of GetRate(from, "USD") in the cross case
StorageQuery(p) ==
    LET c == call[p]
        direct == c.from = "USD" \/ c.to = "USD"
        r == IF direct THEN QueryRate(c.from, c.to) ELSE QueryRate(c.from, "USD")
    IN  /\ c.pc = "query"
        /\ \/ call' = [call EXCEPT ![p] = Returned(c, "rate_error")]
           \/ /\ r.ok
              /\ call' = [call EXCEPT ![p] =
                     IF direct THEN Returned([c EXCEPT !.rate = r.rate], "ok")
                     ELSE [c EXCEPT !.pc = "query2", !.rate = r.rate,
                                    !.snap = store]]
        /\ UNCHANGED <<rows, wallets, lock, pending, cache, store, ncalls, net, updater, updated_at>>

\* the query of GetRate("USD", to) in the cross case, and the product
StorageQueryCross(p) ==
    LET c == call[p]
        r == QueryRate("USD", c.to)
    IN  /\ c.pc = "query2"
        /\ \/ call' = [call EXCEPT ![p] = Returned(c, "rate_error")]
           \/ /\ r.ok
              /\ call' = [call EXCEPT ![p] =
                     Returned([c EXCEPT !.rate = Mul(c.rate, r.rate)], "ok")]
        /\ UNCHANGED <<rows, wallets, lock, pending, cache, store, ncalls, net, updater, updated_at>>

\* an upsert that writes nothing
UpsertNothing(t, currency, v) == t

\* INSERT ... ON CONFLICT (currency) DO UPDATE SET rate, updated_at: the row
\* of currency in table t holds value v afterwards, the other rows stay
Upsert(t, currency, v) ==
    [c \in DOMAIN t \cup {currency} |-> IF c = currency THEN v ELSE t[c]]

\* a rollback that keeps what the transaction has written so far, as if
\* each upsert had committed by itself
RolledBackKeepsUpserts(committed, tx) == tx

\* the table after the deferred tx.Rollback() of a refresh that returns an
\* error: the committed rows
RolledBack(committed, tx) == committed

\* a refresh goroutine that ends at the first refresh that returns an error
\* (return in place of log.Printf)
UpdateRatesUntilError ==
    /\ updater.pc = "idle"
    /\ updater.n < MaxRefreshes
    /\ updater.res # "error"
    /\ \/ /\ ~updater.up
          /\ updater' = [IdleUpdater EXCEPT !.res = "error", !.n = updater.n + 1,
                                            !.up = updater.up,
                                            !.logged = updater.logged + 1]
       \/ \E rates \in Feeds :
             updater' = [pc |-> "upsert", res |-> "none", rates |-> rates,
                         todo |-> DOMAIN rates, tx |-> store, txat |-> updated_at,
                         n |-> updater.n + 1, up |-> updater.up,
                         logged |-> updater.logged]
    /\ UNCHANGED <<rows, wallets, lock, pending, call, cache, store, ncalls, net,
                   updated_at>>

\* one tick of startRateUpdater (or the call main makes at startup):
\* UpdateRatesFromCB up to BeginTx.  It returns an error, which the loop
\* logs before it waits for the next tick, when the feed's URL is not
\* configured, the fetch fails or the transaction cannot be begun; else it
\* holds the fetched quotes and an open transaction
UpdateRatesFromCB ==
    /\ updater.pc = "idle"
    /\ updater.n < MaxRefreshes
    /\ \/ /\ ~updater.up
          /\ updater' = [IdleUpdater EXCEPT !.res = "error", !.n = updater.n + 1,
                                            !.up = updater.up,
                                            !.logged = updater.logged + 1]
       \/ \E rates \in Feeds :
             updater' = [pc |-> "upsert", res |-> "none", rates |-> rates,
                         todo |-> DOMAIN rates, tx |-> store, txat |-> updated_at,
                         n |-> updater.n + 1, up |-> updater.up,
                         logged |-> updater.logged]
    /\ UNCHANGED <<rows, wallets, lock, pending, call, cache, store, ncalls, net,
                   updated_at>>

\* a refresh that returns an error after BeginTx: the deferred Rollback
RefreshFailed ==
    /\ ~updater.up
    /\ store' = RolledBack(store, updater.tx)
    /\ updated_at' = RolledBack(updated_at, updater.txat)
    /\ updater' = [updater EXCEPT !.pc = "idle", !.res = "error",
                                  !.tx = NoRates, !.txat = NoRates,
                                  !.logged = @ + 1]

\* one round of the loop over the fetched quotes (a Go map: any order): the
\* upsert of one currency in the transaction, or its error
UpsertRate ==
    /\ updater.pc = "upsert"
    /\ updater.todo # {}
    /\ \/ \E c \in updater.todo :
             /\ updater' = [updater EXCEPT
                    !.todo = @ \ {c},
                    !.tx = Upsert(@, c, updater.rates[c]),
                    !.txat = Upsert(@, c, updater.n)]
             /\ UNCHANGED <<store, updated_at>>
       \/ RefreshFailed
    /\ UNCHANGED <<rows, wallets, lock, pending, call, cache, ncalls, net>>

\* tx.Commit() after the loop: the rows written become the committed rows
\* at once, or Commit returns an error
CommitRates ==
    /\ updater.pc = "upsert"
    /\ updater.todo = {}
    /\ \/ /\ store' = updater.tx
          /\ updated_at' = updater.txat
          /\ updater' = [updater EXCEPT !.pc = "idle", !.res = "ok",
                                        !.tx = NoRates, !.txat = NoRates]
       \/ RefreshFailed
    /\ UNCHANGED <<rows, wallets, lock, pending, call, cache, ncalls, net>>

\* the feed stops answering or the database stops taking writes
Outage ==
    /\ updater.up
    /\ updater' = [updater EXCEPT !.up = FALSE]
    /\ UNCHANGED <<rows, wallets, lock, pending, call, cache, store, ncalls, net,
                   updated_at>>

\* the feed answers and the database takes writes again
Recovery ==
    /\ ~updater.up
    /\ updater' = [updater EXCEPT !.up = TRUE]
    /\ UNCHANGED <<rows, wallets, lock, pending, call, cache, store, ncalls, net,
                   updated_at>>

----------------------------------------------------------------------------
(* The steps a call takes after it is issued *)

Step(p) ==
    \/ GetRatesCache(p)
    \/ GetRatesRemote(p)
    \/ RepoGetBalance(p)
    \/ RepoCreateWallet(p)
    \/ RepoUpdateBalance(p)
    \/ RepoExchangeDebit(p)
    \/ RepoExchangeCredit(p)
    \/ RepoExchangeCommit(p)
    \/ RepoTransferDebit(p)
    \/ RepoTransferCredit(p)
    \/ RepoTransferCommit(p)
    \/ Fail(p)

(* Concurrent requests of the registered users *)
Next ==
    \/ \E p \in Procs, u \in Users : GetBalance(p, u)
    \/ \E p \in Procs, u \in Users, c \in Currencies, a \in Amounts : Deposit(p, u, c, a)
    \/ \E p \in Procs, u \in Users, c \in Currencies, a \in Amounts : Withdraw(p, u, c, a)
    \/ \E p \in Procs, u \in Users, f \in Currencies, t \in Currencies, a \in Amounts :
          Exchange(p, u, f, t, a)
    \/ \E p \in Procs, u \in Users, v \in Users, c \in Currencies, a \in Amounts :
          Transfer(p, u, v, c, a)
    \/ \E p \in Procs : Step(p)
    \/ CacheExpire

Spec == Init /\ [][Next]_vars

(* One request at a time, with arbitrary arguments *)
NextSeq ==
    \/ /\ ncalls < MaxSeqCalls
       /\ \/ \E u \in UserInputs : GetBalance(1, u)
          \/ \E u \in UserInputs, c \in CurrencyInputs, a \in AmountInputs :
                Deposit(1, u, c, a)
          \/ \E u \in UserInputs, c \in CurrencyInputs, a \in AmountInputs :
                Withdraw(1, u, c, a)
          \/ \E u \in UserInputs, f \in CurrencyInputs, t \in CurrencyInputs,
                a \in AmountInputs : Exchange(1, u, f, t, a)
          \/ \E u \in Users, v \in Users, c \in Currencies, a \in AmountInputs \ {0} :
                Transfer(1, u, v, c, a)
    \/ Step(1)
    \/ CacheExpire

SpecSeq == Init /\ [][NextSeq]_vars

(* The rate service and the rate store, asked for any pair, in any state   *)
(* of the cache: no entry, or the quotes fetched at some earlier time      *)
RatesInit(tables) ==
    /\ rows = {}
    /\ wallets = [u \in Users |-> ZeroRow]
    /\ net = [u \in Users |-> ZeroRow]
    /\ lock = [u \in Users |-> 0]
    /\ pending = [u \in Users |-> ZeroRow]
    /\ call = [p \in Procs |-> IdleCall]
    /\ cache \in {NoCacheEntry} \cup {[present |-> TRUE, rates |-> q] : q \in tables}
    /\ store \in tables
    /\ ncalls = 0
    /\ updater = IdleUpdater
    /\ updated_at = [c \in DOMAIN store |-> 0]

InitRates == RatesInit(QuoteSets)

NextRates ==
    \/ /\ ncalls < MaxRateCalls
       /\ \/ \E p \in Procs, f \in CurrencyInputs, t \in CurrencyInputs : GetRate(p, f, t)
          \/ \E p \in Procs, f \in CurrencyInputs, t \in CurrencyInputs :
                StorageGetRate(p, f, t)
    \/ \E p \in Procs : GetRatesCache(p)
    \/ \E p \in Procs : GetRatesRemote(p)
    \/ \E p \in Procs : StorageQuery(p)
    \/ \E p \in Procs : StorageQueryCross(p)
    \/ CacheExpire

SpecRates == InitRates /\ [][NextRates]_vars

(* One rate request at a time to either resolver, on any table, a table    *)
(* with a zero quote included                                              *)
InitResolve == RatesInit(StoreSets)

NextResolve ==
    \/ /\ ncalls < MaxRateCalls
       /\ \/ \E f \in CurrencyInputs, t \in CurrencyInputs : GetRate(1, f, t)
          \/ \E f \in CurrencyInputs, t \in CurrencyInputs : StorageGetRate(1, f, t)
    \/ GetRatesCache(1)
    \/ GetRatesRemote(1)
    \/ StorageQuery(1)
    \/ StorageQueryCross(1)
    \/ CacheExpire

SpecResolve == InitResolve /\ [][NextResolve]_vars

(* The rate store, refreshed by the updater while one client asks it for   *)
(* rates (GetRate) or, through the wallet, for all of them (GetAllRates);  *)
(* it starts as migrated, or as earlier refreshes have left it             *)
(* The scenario of one user holding 150.00 USD while gw-exchanger serves    *)
(* USD at 80 and EUR at 90: exchanges of 100.00 and rate requests between  *)
(* USD and EUR                                                             *)
ScenarioQuotes == FeedQuotes(80, 90)
ScenarioWallet == [c \in Currencies |-> IF c = "USD" THEN 15000 ELSE 0]
ScenarioAmounts == {100000}
ScenarioCurrencies == {"USD", "EUR"}

InitScenario ==
    /\ rows = Users
    /\ wallets = [u \in Users |-> IF u = 1 THEN ScenarioWallet ELSE ZeroRow]
    /\ net = [u \in Users |-> [c \in Currencies |->
                  wallets[u][c] * CentMills * NetScale]]
    /\ lock = [u \in Users |-> 0]
    /\ pending = [u \in Users |-> ZeroRow]
    /\ call = [p \in Procs |-> IdleCall]
    /\ cache = NoCacheEntry
    /\ store = ScenarioQuotes
    /\ ncalls = 0
    /\ updater = IdleUpdater
    /\ updated_at = [c \in DOMAIN store |-> 0]

NextScenario ==
    \/ \E p \in Procs, f \in ScenarioCurrencies, t \in ScenarioCurrencies,
          a \in ScenarioAmounts : Exchange(p, 1, f, t, a)
    \/ \E p \in Procs, f \in ScenarioCurrencies, t \in ScenarioCurrencies :
          GetRate(p, f, t)
    \/ \E p \in Procs, f \in ScenarioCurrencies, t \in ScenarioCurrencies :
          StorageGetRate(p, f, t)
    \/ \E p \in Procs : GetRatesCache(p)
    \/ \E p \in Procs : GetRatesRemote(p)
    \/ \E p \in Procs : RepoExchangeDebit(p)
    \/ \E p \in Procs : RepoExchangeCredit(p)
    \/ \E p \in Procs : RepoExchangeCommit(p)
    \/ \E p \in Procs : Fail(p)
    \/ \E p \in Procs : StorageQuery(p)
    \/ CacheExpire

SpecScenario == InitScenario /\ [][NextScenario]_vars

InitRefresh == InitRates /\ cache = NoCacheEntry

NextRefresh ==
    \/ /\ ncalls < MaxRateCalls
       /\ \/ \E f \in CurrencyInputs, t \in CurrencyInputs : StorageGetRate(1, f, t)
          \/ \E f \in Currencies, t \in Currencies : GetRate(1, f, t)
    \/ StorageQuery(1)
    \/ StorageQueryCross(1)
    \/ GetRatesCache(1)
    \/ GetRatesRemote(1)
    \/ UpdateRatesFromCB
    \/ UpsertRate
    \/ CommitRates
    \/ Outage
    \/ Recovery

SpecRefresh == InitRefresh /\ [][NextRefresh]_vars

(* The refresh goroutine by itself, through outages of the feed or of the  *)
(* database.  The ticker fires again after every refresh as long as the    *)
(* process runs, and a refresh that has begun goes on to its next          *)
(* statement: the fetch returns and each statement of the transaction is   *)
(* bounded by the 5 s context.                                             *)
NextUpdater ==
    \/ UpdateRatesFromCB
    \/ UpsertRate
    \/ CommitRates
    \/ Outage
    \/ Recovery

SpecUpdater ==
    /\ InitRefresh
    /\ [][NextUpdater]_vars
    /\ WF_vars(UpdateRatesFromCB)
    /\ WF_vars(UpsertRate)
    /\ WF_vars(CommitRates)

----------------------------------------------------------------------------
(* Properties *)

\* C1: an Exchange between two currencies that reaches the ledger with an
\* amount (a whole number of cents) greater than the user's balance in the
\* source currency fails (with the insufficient-funds error, or with a
\* database error) and leaves that balance as it was.
ExchangeInsufficientFunds ==
    \A p \in Procs :
        LET c == call[p]
        IN  (/\ c.op = "Exchange" /\ c.pc = "done" /\ c.touched
             /\ c.user \in rows
             /\ c.from # c.to /\ c.amount % CentMills = 0
             /\ c.bal0 * CentMills < c.amount)
            => (/\ c.res \in {"insufficient", "db_error"}
                /\ wallets[c.user][c.from] = c.bal0)

\* C2: no committed balance of any user in any currency is ever negative.
NonNegativeBalance ==
    \A u \in Users, c \in Currencies : wallets[u][c] >= 0

\* C3: every step of an Exchange leaves the committed balances as they are,
\* except the commit that completes it, which applies the debit and the
\* credit together; an Exchange that fails after its debit therefore leaves
\* the balance it found.
ExchangeEffect(c, row) ==
    updateBalanceTx(updateBalanceTx(row, c.from, -c.amount, 1),
                    c.to, c.amount * c.rate[1], c.rate[2])

ExchangeAllOrNothing ==
    [][\A p \in Procs :
          LET c == call[p]
          IN  (c.op = "Exchange" /\ c.pc \notin {"idle", "done"} /\ call'[p] # c)
              => IF call'[p].pc = "done" /\ call'[p].res \in {"ok", "too_high"}
                 THEN wallets' = [wallets EXCEPT ![c.user] = ExchangeEffect(c, @)]
                 ELSE wallets' = wallets]_vars

\* C3 witness: an Exchange between two currencies holds its debit and its
\* credit uncommitted while another call is about to read the same row.
ExchangeLegsPending ==
    \E p \in Procs, q \in Procs :
        /\ p # q
        /\ call[p].op = "Exchange" /\ call[p].pc = "commit"
        /\ call[p].from # call[p].to
        /\ pending[call[p].user] # wallets[call[p].user]
        /\ call[q].pc = "select" /\ call[q].user = call[p].user

\* C4: of two Exchange calls that run concurrently for the same user, the
\* same source currency and the same amount, starting from a balance B that
\* covers at least one of them, at most floor(B / amount) succeed.
ConcurrentExchangesBounded ==
    \A p \in Procs, q \in Procs :
        LET c == call[p]
            d == call[q]
        IN  (/\ p # q
             /\ c.op = "Exchange" /\ d.op = "Exchange"
             /\ c.pc = "done" /\ d.pc = "done"
             /\ c.fin0 = d.fin0
             /\ c.user = d.user /\ c.from = d.from /\ c.amount = d.amount
             /\ c.from # c.to /\ d.from # d.to
             /\ c.bal0 = d.bal0 /\ c.bal0 * CentMills >= c.amount)
            => Cardinality({r \in {p, q} : call[r].res = "ok"})
                  <= (c.bal0 * CentMills) \div c.amount

\* C5: once every call has returned (and no balance is overdrawn), each
\* balance equals the initial balance plus the credits minus the debits of
\* exactly the calls that committed.
NoLostUpdates ==
    (InFlight = {} /\ \A u \in Users, c \in Currencies : wallets[u][c] >= 0) =>
        \A u \in rows, c \in Currencies :
            wallets[u][c] * CentMills * NetScale = net[u][c]

\* C6: an Exchange (of a whole number of cents the user can afford) that is
\* rejected by a plausibility check, the one on the pair RUB/USD or the
\* maxRates table, has not called the ledger and leaves the balance of the
\* source currency as it was.
SanityChecksBeforeLedger ==
    \A p \in Procs :
        LET c == call[p]
        IN  (/\ c.op = "Exchange" /\ c.pc = "done"
             /\ c.res \in {"implausible", "too_high"}
             /\ c.amount % CentMills = 0 /\ c.bal0 * CentMills >= c.amount)
            => (~c.touched /\ wallets[c.user][c.from] = c.bal0)

\* C7: a Withdraw that succeeds found, when its UPDATE ran, a balance of at
\* least the amount: concurrent withdrawals never overdraw.
WithdrawNeverOverdraws ==
    \A p \in Procs :
        (call[p].op = "Withdraw" /\ call[p].pc = "done" /\ call[p].res = "ok")
            => ~call[p].short

\* C8: the step that completes a Transfer between two users, the sender
\* holding at least the amount, either moves the amount without changing
\* the total the two hold in the currency, or (on failure) leaves every
\* balance as it was.
TransferConservesMoney ==
    [][\A p \in Procs :
          LET c == call[p]
          IN  (/\ c.op = "Transfer" /\ c.user # c.peer
               /\ c.bal0 * CentMills >= c.amount
               /\ c.pc \notin {"idle", "done"} /\ call'[p].pc = "done")
              => IF call'[p].res = "ok"
                 THEN wallets'[c.user][c.from] + wallets'[c.peer][c.from]
                         = wallets[c.user][c.from] + wallets[c.peer][c.from]
                 ELSE wallets' = wallets]_vars

\* C9: a Deposit, Withdraw or Exchange whose arguments are invalid returns
\* the validation error at once, and an Exchange whose rate resolution
\* fails returns that error; in both cases no step of the call has called
\* the ledger and the step that returns leaves the ledger as it was.
InvalidArgs(c) ==
    \/ c.user <= 0
    \/ ~isValidCurrency(c.from)
    \/ c.op = "Exchange" /\ ~isValidCurrency(c.to)
    \/ c.amount <= 0

NoLedgerOnRejection ==
    [][\A p \in Procs :
          LET c == call'[p]
          IN  (c.op \in {"Deposit", "Withdraw", "Exchange"} /\ c # call[p])
              => /\ InvalidArgs(c) =>
                      /\ c.pc = "done" /\ c.res = "invalid" /\ ~c.touched
                      /\ UNCHANGED <<rows, wallets, lock, pending>>
                 /\ c.res = "rate_error" =>
                      /\ ~c.touched
                      /\ UNCHANGED <<rows, wallets, lock, pending>>]_vars

\* C9 witness: an Exchange of a funded user has returned a rate-resolution
\* error.
RateErrorReturned ==
    \E p \in Procs :
        /\ call[p].op = "Exchange" /\ call[p].pc = "done"
        /\ call[p].res = "rate_error"
        /\ call[p].user \in rows
        /\ wallets[call[p].user][call[p].from] > 0

\* C10: a rate request for a pair of equal currencies, to the rate service
\* or to the rate store, has returned 1.0 and is never at a step that reads
\* the cache, the remote service or the store.
ReadsRates(c) == c.pc \in {"rates", "grpc", "query", "query2"}

IdentityRateIsOne ==
    \A p \in Procs :
        LET c == call[p]
        IN  (c.op \in {"GetRate", "StorageGetRate"} /\ c.from = c.to)
            => (~ReadsRates(c) /\ c.pc = "done" /\ c.res = "ok" /\ c.rate = One)

\* C10 witness: the rate service has answered USD/USD while the cache holds
\* a snapshot without USD and the store holds no quote of USD either.
IdentityRateAnswered ==
    \E p \in Procs :
        /\ call[p].op = "GetRate" /\ call[p].pc = "done"
        /\ call[p].from = "USD" /\ call[p].to = "USD"
        /\ cache.present /\ "USD" \notin DOMAIN cache.rates
        /\ "USD" \notin DOMAIN store

\* C11: while gw-exchanger serves USD at 80 and EUR at 90, every answer to a
\* request for the rate USD -> EUR is 90/80 = 1.125, and an Exchange of
\* 100.00 USD into EUR, the only call on a wallet of 150.00 USD and no EUR,
\* leaves 50.00 USD and 112.50 EUR.
ScenarioOutcome ==
    \A p \in Procs :
        LET c == call[p]
        IN  (c.pc = "done" /\ c.res = "ok" /\ c.from = "USD" /\ c.to = "EUR") =>
                /\ Eq(c.rate, <<90, 80>>)
                /\ (c.op = "Exchange" /\ ncalls = 1) =>
                       /\ wallets[c.user]["USD"] = 5000
                       /\ wallets[c.user]["EUR"] = 11250

\* the quote sets the wallet's resolver can be given in this state: what
\* GetExchangeRates returns now, and what the cache holds
Snapshots ==
    {filterRates(store)} \cup (IF cache.present THEN {filterRates(cache.rates)} ELSE {})

NonZero(rates) == \A c \in DOMAIN rates : rates[c][1] # 0

\* C12: on one quote set without a zero quote, the rates of a pair of distinct
\* currencies in the two directions, where both resolve, multiply to exactly
\* 1, in the wallet's resolver and in the exchanger's.
RoundTrip ==
    \A a \in CurrencyInputs : \A b \in CurrencyInputs \ {a} :
        /\ \A rates \in Snapshots :
              LET x == WalletRateOf(rates, a, b)
                  y == WalletRateOf(rates, b, a)
              IN  (NonZero(rates) /\ x.ok /\ y.ok) => Eq(Mul(x.rate, y.rate), One)
        /\ LET x == StorageRateOf(a, b)
               y == StorageRateOf(b, a)
           IN  (NonZero(store) /\ x.ok /\ y.ok) => Eq(Mul(x.rate, y.rate), One)

\* a cross rate has been answered from a table without a zero quote, and its
\* reverse resolves too
RoundTripAnswered ==
    \E p \in Procs :
        LET c == call[p]
        IN  /\ c.pc = "done" /\ c.res = "ok" /\ c.op = "StorageGetRate"
            /\ c.from # c.to /\ c.from # "USD" /\ c.to # "USD"
            /\ NonZero(store)
            /\ c.rate = StorageRateOf(c.from, c.to).rate
            /\ ~Eq(c.rate, One)
            /\ StorageRateOf(c.to, c.from).ok

\* C13: on one quote set without a zero quote, for any currencies a, b and c
\* (USD or RUB among them, or two of them the same) whose three rates
\* resolve, the rate a -> c is exactly the rate a -> b times the rate b -> c,
\* in the wallet's resolver and in the exchanger's.
CrossRateConsistent ==
    \A a \in CurrencyInputs, b \in CurrencyInputs, c \in CurrencyInputs :
        /\ \A rates \in Snapshots :
              LET x == WalletRateOf(rates, a, b)
                  y == WalletRateOf(rates, b, c)
                  z == WalletRateOf(rates, a, c)
              IN  (NonZero(rates) /\ x.ok /\ y.ok /\ z.ok) =>
                      Eq(z.rate, Mul(x.rate, y.rate))
        /\ LET x == StorageRateOf(a, b)
               y == StorageRateOf(b, c)
               z == StorageRateOf(a, c)
           IN  (NonZero(store) /\ x.ok /\ y.ok /\ z.ok) =>
                   Eq(z.rate, Mul(x.rate, y.rate))

\* the wallet has answered USD -> EUR from quotes that also give it the
\* rates USD -> RUB and RUB -> EUR
CrossRateAnswered ==
    \E p \in Procs, rates \in Snapshots :
        LET c == call[p]
        IN  /\ c.pc = "done" /\ c.res = "ok" /\ c.op = "GetRate"
            /\ c.from = "USD" /\ c.to = "EUR"
            /\ NonZero(rates)
            /\ c.rate = WalletRateOf(rates, "USD", "EUR").rate
            /\ WalletRateOf(rates, "USD", "RUB").ok
            /\ WalletRateOf(rates, "RUB", "EUR").ok

\* C14: no answered rate request, of the wallet's resolver or of the
\* exchanger's, carries the reciprocal of a zero quote (a rate with divisor
\* 0): the request whose divisor would be a zero quote ends with an error.
NoReciprocalOfZero ==
    \A p \in Procs :
        LET c == call[p]
        IN  (c.op \in {"GetRate", "StorageGetRate"} /\ c.pc = "done" /\ c.res = "ok") =>
                c.rate[2] # 0

\* currency has an entry in rates, and not a zero one
Quoted(rates, currency) == currency \in DOMAIN rates /\ rates[currency][1] # 0

\* C15: the rate between two distinct currencies fails to resolve exactly
\* when one of the two has no non-zero entry in the quote set, whatever the
\* entries of the other currencies, in the wallet's resolver and in the
\* exchanger's.
FailsIffRequestedNotQuoted ==
    \A a \in CurrencyInputs : \A b \in CurrencyInputs \ {a} :
        /\ \A rates \in Snapshots :
              WalletRateOf(rates, a, b).ok <=> (Quoted(rates, a) /\ Quoted(rates, b))
        /\ StorageRateOf(a, b).ok <=> (Quoted(store, a) /\ Quoted(store, b))

\* C16: a request for the rate of a pair that the quotes in the cache
\* resolved when the request arrived (and gw-exchanger's quotes resolve) is
\* answered with a rate, also when the entry has outlived cacheDuration
\* since it arrived and the fetch from gw-exchanger fails.
StaleQuotesServed ==
    \A p \in Procs :
        LET c == call[p]
        IN  (/\ c.op = "GetRate" /\ c.pc = "done" /\ c.from # c.to
             /\ WalletRateOf(filterRates(c.snap), c.from, c.to).ok
             /\ WalletRateOf(filterRates(store), c.from, c.to).ok
             /\ ~cache.present) =>
                c.res = "ok"

\* C17: a step of UpdateRatesFromCB that does not end it with success (the
\* fetch or BeginTx failing, an upsert in the open transaction, an upsert or
\* the Commit failing) leaves every committed row of exchange_rates, rate and
\* updated_at, as it was; so does a refresh that fails after another.
FailedRefreshChangesNothing ==
    [][(updater' # updater /\ updater'.res # "ok") =>
           (store' = store /\ updated_at' = updated_at)]_vars

\* two refreshes have failed, the second after it had upserted a quote, and
\* no refresh has committed
RefreshFailedTwice ==
    /\ updater.res = "error" /\ updater.n = 2
    /\ updater.rates # NoRates /\ updater.todo # DOMAIN updater.rates
    /\ \A c \in DOMAIN updated_at : updated_at[c] = 0

\* C18: when UpdateRatesFromCB returns success, the committed quotes are
\* exactly the fetched ones: a currency the feed does not quote any more has
\* no row left.
RefreshReplacesWholesale ==
    [][(updater.pc = "upsert" /\ updater'.pc = "idle" /\ updater'.res = "ok") =>
           store' = updater.rates]_vars

\* C19: in every state of table exchange_rates, as migrated and after any
\* refreshes, successful or failed, RUB has a row and its rate is exactly 1.
ReferenceCurrencyIsOne ==
    "RUB" \in DOMAIN store /\ Eq(store["RUB"], One)

\* the cross rate from -> to computed from the rows of one table t
CrossRateOn(t, from, to) == Mul(Inv(Quote(t, from)), Quote(t, to))

\* C20: a cross rate that PostgresStorage.GetRate returns while refreshes
\* run is the cross rate of one committed table: the one its first query
\* read or the one its second query read, not a product of a quote of one
\* and a quote of the other.
NoTornCrossRate ==
    [][\A p \in Procs :
          (call[p].pc = "query2" /\ call'[p].pc = "done" /\ call'[p].res = "ok") =>
              \/ Eq(call'[p].rate, CrossRateOn(call[p].snap, call[p].from, call[p].to))
              \/ Eq(call'[p].rate, CrossRateOn(store, call[p].from, call[p].to))]_vars

Fetched == [present |-> TRUE, rates |-> store]

FailedAt(k) ==
    updater.pc = "idle" /\ updater.res = "error" /\ updater.n = k

\* the quotes of the last refresh are the committed ones
Replaced ==
    /\ updater.pc = "idle" /\ updater.res = "ok"
    /\ \A c \in DOMAIN updater.rates :
          c \in DOMAIN store /\ store[c] = updater.rates[c] /\ updated_at[c] = updater.n

\* C23: a refresh that returns an error (logged by the loop) does not end
\* the refresh goroutine: as long as ticks are left, the refresh after a
\* failed one is started; and if the feed answers and the database takes
\* writes after a failed refresh, a later refresh commits the quotes it
\* fetched, unless an outage comes first.  Under weak fairness of the tick
\* and of the steps of a refresh.
FailedRefreshIsRetried ==
    \A k \in 0 .. (MaxRefreshes - 1) :
        /\ FailedAt(k) ~> (updater.n > k)
        /\ (FailedAt(k) /\ updater.up) ~> ((updater.n > k /\ Replaced) \/ ~updater.up)

\* a refresh has returned an error and was logged, and a later refresh has
\* committed its quotes
ReplacedAfterFailure ==
    updater.logged > 0 /\ Replaced

\* C24: at most one fetch of the quotes is in flight: no two calls are at
\* the same time between the cache miss of GetRates and the return of the
\* GetExchangeRates it makes.
SingleFlight ==
    Cardinality({p \in Procs : call[p].pc = "grpc"}) <= 1

\* the operations of a wallet that C25 names
WalletOps == {"GetBalance", "Deposit", "Withdraw", "Exchange"}

\* C25: a row of wallets is never deleted, a new row holds zero in every
\* currency, and once GetBalance, Deposit, Withdraw or Exchange has gone to
\* the ledger for a user and returned, that user has a row, unless the
\* database failed (connection lost, context cancelled).
RecordCreatedOnFirstAccess ==
    [][/\ rows \subseteq rows'
       /\ \A u \in rows' \ rows : wallets'[u] = ZeroRow
       /\ \A p \in Procs :
             LET c == call[p]
                 d == call'[p]
             IN  (/\ c.op \in WalletOps
                  /\ c.pc \in {"select", "insert", "update", "debit"}
                  /\ d.pc = "done" /\ d.res # "db_error") => d.user \in rows']_vars

\* C26: with one call at a time, the step on which a Withdraw with valid
\* arguments returns (the database not failing) is a success that leaves
\* the balance less the amount when the amount is at most the balance, and
\* the insufficient-funds error with the balance as it was when it is
\* more; no other balance changes in either case.
SequentialWithdraw ==
    [][\A p \in Procs :
          LET c == call[p]
              d == call'[p]
              u == c.user
              b == wallets[u][c.from] * CentMills
          IN  (/\ c.op = "Withdraw" /\ c.pc \notin {"idle", "done"}
               /\ d.pc = "done" /\ d.res # "db_error")
              => /\ IF c.amount <= b
                    THEN /\ d.res = "ok"
                         /\ wallets'[u][c.from] * CentMills = b - c.amount
                    ELSE /\ d.res = "insufficient"
                         /\ wallets'[u][c.from] = wallets[u][c.from]
                 /\ \A v \in Users, k \in Currencies :
                       (v # u \/ k # c.from) => wallets'[v][k] = wallets[v][k]]_vars

\* the committed balances call c may change: of its user (and, for a
\* Transfer, of the recipient) in the currencies it names
Frame(c) ==
    CASE c.op \in {"Deposit", "Withdraw"} -> {<<c.user, c.from>>}
      [] c.op = "Exchange" -> {<<c.user, c.from>>, <<c.user, c.to>>}
      [] c.op = "Transfer" -> {<<c.user, c.from>>, <<c.peer, c.from>>}
      [] OTHER -> {}

\* C27: every step that changes a committed balance is a step of one call,
\* and the balance is of that call's user in a currency the call names
\* (Deposit, Withdraw: the one currency; Exchange: fromCurrency and
\* toCurrency); every other balance of every user is unchanged, whatever
\* the other process is doing.
FrameOfWalletOps ==
    [][\A v \in Users, k \in Currencies :
          wallets'[v][k] # wallets[v][k] =>
              \E p \in Procs :
                  /\ call'[p] # call[p]
                  /\ \A q \in Procs \ {p} : call'[q] = call[q]
                  /\ <<v, k>> \in Frame(call[p])]_vars

\* two overlapping calls of different users, a Deposit and an Exchange,
\* have both succeeded
ConcurrentUsersServed ==
    \E p \in Procs, q \in Procs :
        /\ call[p].op = "Deposit" /\ call[q].op = "Exchange"
        /\ call[p].user # call[q].user
        /\ call[p].pc = "done" /\ call[q].pc = "done"
        /\ call[p].res = "ok" /\ call[q].res = "ok"
        /\ call[p].fin0 = call[q].fin0
        /\ call[q].from # call[q].to

\* C28: no step of an Exchange from a currency to itself changes a
\* committed balance: neither its debit alone becomes visible nor does the
\* call as a whole leave any balance other than it found it.
IdentityExchangeIsNoOp ==
    [][\A p \in Procs :
          LET d == call'[p]
          IN  (d.op = "Exchange" /\ d.from = d.to /\ d # call[p])
                  => wallets' = wallets]_vars

\* C29: on every table of quotes in RUB as FetchCBExchangeRates produces
\* them (RUB itself at 1), and for every pair of USD, RUB and EUR, the
\* wallet's GetRate on the quotes GetAllRates serves and the exchanger's
\* GetRate both fail or both return the same rate.
ResolversAgree ==
    (store \in FeedSets) =>
        \A a \in Currencies, b \in Currencies :
            LET w == WalletRateOf(filterRates(store), a, b)
                s == StorageRateOf(a, b)
            IN  /\ w.ok = s.ok
                /\ w.ok => Eq(w.rate, s.rate)

\* C30: the INSERT of a GetBalance or Withdraw that found no row for its
\* user, the database not failing, leaves the user with a row and the call
\* with the zero balance (returned by GetBalance, checked against the amount
\* by Withdraw), also when another call has created the row in between: no
\* call gets the error of a duplicate key.
ConcurrentFirstAccess ==
    [][\A p \in Procs :
          LET c == call[p]
              d == call'[p]
          IN  (/\ c.op \in {"GetBalance", "Withdraw"} /\ c.pc = "insert"
               /\ d # c /\ d.res # "db_error")
              => d = Checked(c, ZeroRow) /\ c.user \in rows']_vars

====
